---- MODULE Spec2Model ----
(***************************************************************************)
(* Student enrollment system: timetable conflict detection, atomic         *)
(* enrollment (enrollment.service.js) and timetable mutation               *)
(* (admin.service.js), over the tables of the Prisma/MySQL schema.         *)
(*                                                                         *)
(* Time is counted in half-hour units.  A luxon DateTime and a JS Date are *)
(* instants: units since 1970-01-01T00:00Z.  An 'HH:mm' string is the      *)
(* local time of day it spells.  A TIME column keeps a time of day only;   *)
(* Prisma writes the UTC time of day of the Date it is given and reads the *)
(* column back as a Date on 1970-01-01 (UTC).                              *)
(***************************************************************************)
EXTENDS Integers, Sequences, FiniteSets, TLC

\* ------------------------------------------------------------------ bounds
\* days of week used by requests: 1..MaxDay (the validators allow 1..7)
MaxDay == 2
\* times of day used by requests: MaxTimeSpan+1 consecutive half hours,
\* starting half an hour before the local time that is 00:00 UTC
MaxTimeSpan == 2
\* slots in one createTimetableSlots / manageTimetable request
MaxNewSlots == 2
\* timetable rows created after the seeded ones
MaxNewRows == 2
\* course ids in one enrollment request
MaxRequest == 2
\* the day (since 1970-01-01) on which requests are handled
Today == 2

\* ------------------------------------------------------- program constants
\* half hours in a day
DayUnits == 48
\* Settings.defaultZone = 'Asia/Kolkata' (UTC+05:30), in half hours
ZoneOffset == 11

\* ------------------------------------------------------------- seeded data
\* two colleges; students 1 and 2 (userId = student id) of college 1;
\* userId 3 has no student profile; admins 1 and 2 of colleges 1 and 2
Students == {1, 2}
UserIds == {1, 2, 3}
Admins == {1, 2}
StudentCollegeId(s) == 1
AdminCollegeId(a) == a
\* courses 1, 2 and 3 of college 1, course 4 of college 2; id 5 is no course
Courses == {1, 2, 3, 4}
CourseIds == {1, 2, 3, 4, 5}
CourseCollegeId(c) == IF c = 4 THEN 2 ELSE 1
\* the code and the name of a course (unique per course)
CourseCode(c) == 100 + c
CourseName(c) == 200 + c

Days == 1..MaxDay
Times == (ZoneOffset - 1)..(ZoneOffset - 1 + MaxTimeSpan)

NoStudent == [id |-> 0]
NoRow == [id |-> 0]

\* ------------------------------------------------------------------ helpers
Range(s) == {s[i] : i \in DOMAIN s}

\* the members of a set of integers in ascending order
RECURSIVE Ascending(_)
Ascending(S) ==
  IF S = {} THEN <<>>
  ELSE LET m == CHOOSE x \in S : \A y \in S : x <= y
       IN  <<m>> \o Ascending(S \ {m})

\* (i, j) for i in 1..n, j in 1..m, outer index first
Pairs(n, m) == [k \in 1..(n * m) |-> <<((k - 1) \div m) + 1, ((k - 1) % m) + 1>>]

RECURSIVE Flatten(_)
Flatten(ss) == IF ss = <<>> THEN <<>> ELSE Head(ss) \o Flatten(Tail(ss))

\* --------------------------------------------------------------- time values
StringTime(t) == [type |-> "string", hhmm |-> t]
JSDate(e) == [type |-> "Date", epoch |-> e]

\* DateTime.fromFormat(str, 'HH:mm'): today at that local time
fromFormat(time) == Today * DayUnits + time.hhmm - ZoneOffset
\* DateTime.fromJSDate(date): the same instant
fromJSDate(date) == date.epoch
\* dt.hour * 60 + dt.minute, in the default zone
hourMinute(dt) == (dt + ZoneOffset) % DayUnits

timeToMinutes(time) ==
  LET dt == IF time.type = "string" THEN fromFormat(time) ELSE fromJSDate(time)
  IN  hourMinute(dt)

timeStringToDate(timeStr) == JSDate(fromFormat(timeStr))

formatTime(time) == StringTime(hourMinute(fromJSDate(time)))

\* a TIME column: written as the UTC time of day, read back on 1970-01-01
WriteTime(date) == date.epoch % DayUnits
ReadTime(v) == JSDate(v)

\* ------------------------------------------------------------ compareTimeSlots
\* a comparison that finds an overlap only when slot2 starts within slot1
compareTimeSlotsOneSided(slot1, slot2) ==
  IF slot1.dayOfWeek # slot2.dayOfWeek
  THEN [isIdentical |-> FALSE, overlaps |-> FALSE]
  ELSE LET start1 == timeToMinutes(slot1.startTime)
           end1 == timeToMinutes(slot1.endTime)
           start2 == timeToMinutes(slot2.startTime)
           end2 == timeToMinutes(slot2.endTime)
       IN  [isIdentical |-> start1 = start2 /\ end1 = end2,
            overlaps |-> start1 <= start2 /\ start2 < end1]

compareTimeSlots(slot1, slot2) ==
  IF slot1.dayOfWeek # slot2.dayOfWeek
  THEN [isIdentical |-> FALSE, overlaps |-> FALSE]
  ELSE LET start1 == timeToMinutes(slot1.startTime)
           end1 == timeToMinutes(slot1.endTime)
           start2 == timeToMinutes(slot2.startTime)
           end2 == timeToMinutes(slot2.endTime)
       IN  [isIdentical |-> start1 = start2 /\ end1 = end2,
            overlaps |-> start1 < end2 /\ start2 < end1]

\* --------------------------------------------------------------- luxon Interval
\* Interval.fromDateTimes(start, end): invalid when end is before start
IntervalFromDateTimes(s, e) ==
  IF e < s THEN [invalid |-> TRUE, s |-> 0, e |-> 0]
  ELSE [invalid |-> FALSE, s |-> s, e |-> e]

\* a.overlaps(b): this.e > other.s && this.s < other.e, false on an invalid one
IntervalOverlaps(a, b) == ~a.invalid /\ ~b.invalid /\ a.e > b.s /\ a.s < b.e


\* ------------------------------------------------------------------- database
\* timetables: the rows of the timetables table, in id order
\* nextTimetableId: the table's AUTO_INCREMENT counter
\* enrollments: the rows of the enrollments table, in id order
\* res: the response of the last completed request
\* reqs: the requests in flight (their position and what they have read)
\* storedCourses: the ids of the rows of the courses table
VARIABLES timetables, nextTimetableId, enrollments, res, reqs, storedCourses
vars == <<timetables, nextTimetableId, enrollments, res, reqs, storedCourses>>
db == <<timetables, nextTimetableId, enrollments, storedCourses>>

\* a timetables row as Prisma returns it (TIME columns as Dates)
ReadSlot(row) ==
  [id |-> row.id, courseId |-> row.courseId, dayOfWeek |-> row.dayOfWeek,
   startTime |-> ReadTime(row.startTime), endTime |-> ReadTime(row.endTime)]

\* prisma.timetable.findMany({ where: { courseId } })
TimetablesOfCourse(courseId, tt) ==
  LET rows == SelectSeq(tt, LAMBDA r : r.courseId = courseId)
  IN  [k \in 1..Len(rows) |-> ReadSlot(rows[k])]

\* a course with include: { timetables: true }
CourseWithTimetables(c, tt) ==
  [id |-> c, code |-> CourseCode(c), name |-> CourseName(c), collegeId |-> CourseCollegeId(c),
   timetables |-> TimetablesOfCourse(c, tt)]

\* prisma.student.findUnique({ where: { userId }, include: enrollments.course.timetables })
FindStudentWithEnrollments(userId, enr, tt) ==
  IF userId \notin Students THEN NoStudent
  ELSE LET rows == SelectSeq(enr, LAMBDA e : e.studentId = userId)
       IN  [id |-> userId, collegeId |-> StudentCollegeId(userId),
            enrollments |->
              [k \in 1..Len(rows) |->
                 [courseId |-> rows[k].courseId,
                  course |-> CourseWithTimetables(rows[k].courseId, tt)]]]

\* prisma.course.findMany({ where: { id: { in: courseIds } }, include: timetables })
FindCoursesByIds(courseIds, tt) ==
  LET ids == Ascending(courseIds \cap Courses)
  IN  [k \in 1..Len(ids) |-> CourseWithTimetables(ids[k], tt)]

\* --------------------------------------------------------- findTimetableConflicts
CourseIntervals(course) ==
  [k \in 1..Len(course.timetables) |->
     [interval |-> IntervalFromDateTimes(fromJSDate(course.timetables[k].startTime),
                                         fromJSDate(course.timetables[k].endTime)),
      dayOfWeek |-> course.timetables[k].dayOfWeek,
      courseCode |-> course.code]]

FlatIntervals(courses) ==
  Flatten([k \in 1..Len(courses) |-> CourseIntervals(courses[k])])

IntervalsClash(slotA, slotB) ==
  slotA.dayOfWeek = slotB.dayOfWeek /\ IntervalOverlaps(slotA.interval, slotB.interval)

\* the two loops in the other order: the EXTERNAL entries first
findTimetableConflictsExternalFirst(existingCourses, newCourses) ==
  LET existingIntervals == FlatIntervals(existingCourses)
      newIntervals == FlatIntervals(newCourses)
      n == Len(newIntervals)
      m == Len(existingIntervals)
      inner == SelectSeq(Pairs(n, n),
                 LAMBDA p : p[1] < p[2] /\ IntervalsClash(newIntervals[p[1]], newIntervals[p[2]]))
      outer == SelectSeq(Pairs(n, m),
                 LAMBDA p : IntervalsClash(newIntervals[p[1]], existingIntervals[p[2]]))
  IN  [k \in 1..Len(outer) |->
         [type |-> "EXTERNAL",
          requested |-> newIntervals[outer[k][1]].courseCode,
          other |-> existingIntervals[outer[k][2]].courseCode]]
      \o
      [k \in 1..Len(inner) |->
         [type |-> "INTERNAL",
          requested |-> newIntervals[inner[k][1]].courseCode,
          other |-> newIntervals[inner[k][2]].courseCode]]

findTimetableConflicts(existingCourses, newCourses) ==
  LET existingIntervals == FlatIntervals(existingCourses)
      newIntervals == FlatIntervals(newCourses)
      n == Len(newIntervals)
      m == Len(existingIntervals)
      inner == SelectSeq(Pairs(n, n),
                 LAMBDA p : p[1] < p[2] /\ IntervalsClash(newIntervals[p[1]], newIntervals[p[2]]))
      outer == SelectSeq(Pairs(n, m),
                 LAMBDA p : IntervalsClash(newIntervals[p[1]], existingIntervals[p[2]]))
  IN  [k \in 1..Len(inner) |->
         [type |-> "INTERNAL",
          requested |-> newIntervals[inner[k][1]].courseCode,
          other |-> newIntervals[inner[k][2]].courseCode]]
      \o
      [k \in 1..Len(outer) |->
         [type |-> "EXTERNAL",
          requested |-> newIntervals[outer[k][1]].courseCode,
          other |-> existingIntervals[outer[k][2]].courseCode]]

\* ------------------------------------------------- checkTimetableConflictsHelper
\* the comparison of the helper: the stored Dates as instants
HelperClash(newSlot, existingSlot) ==
  /\ newSlot.dayOfWeek = existingSlot.dayOfWeek
  /\ fromJSDate(newSlot.startTime) < fromJSDate(existingSlot.endTime)
  /\ fromJSDate(existingSlot.startTime) < fromJSDate(newSlot.endTime)

\* one entry per (new course, new slot, existing course, existing slot) that clash
checkTimetableConflictsHelper(existingCourses, newCourses) ==
  LET ofExisting(newCourse, newSlot, existingCourse) ==
        LET hits == SelectSeq(existingCourse.timetables,
                              LAMBDA existingSlot : HelperClash(newSlot, existingSlot))
        IN  [k \in 1..Len(hits) |->
               [newCourseId |-> newCourse.id, newCourseCode |-> newCourse.code,
                existingCourseId |-> existingCourse.id,
                existingCourseCode |-> existingCourse.code]]
      ofSlot(newCourse, newSlot) ==
        Flatten([k \in 1..Len(existingCourses) |->
                   ofExisting(newCourse, newSlot, existingCourses[k])])
      ofCourse(newCourse) ==
        Flatten([k \in 1..Len(newCourse.timetables) |->
                   ofSlot(newCourse, newCourse.timetables[k])])
  IN  Flatten([k \in 1..Len(newCourses) |-> ofCourse(newCourses[k])])

\* ------------------------------------------------------------- enrollInCourses
\* what a request comes to before its write: the status, the enrolled list
\* it would return, the conflicts or missing ids it reports, and the rows
\* it hands to createMany (none when it throws)
Outcome(status, enrolled, conflicts, notFound, data) ==
  [status |-> status, enrolled |-> enrolled, conflicts |-> conflicts,
   notFound |-> notFound, data |-> data]

EnrolledEntry(course) ==
  [courseId |-> course.id, courseCode |-> course.code, courseName |-> course.name]

\* the comparison of the two college ids, off
CollegesNeverDiffer(courseCollegeId, studentCollegeId) == FALSE

\* c.collegeId !== student.collegeId; student_college_id != course_college_id
CollegesDiffer(courseCollegeId, studentCollegeId) == courseCollegeId # studentCollegeId

\* a request passes unless every requested course is of another college
CollegeMismatchOfAll(student, requestedCourses) ==
  \A k \in 1..Len(requestedCourses) :
    CollegesDiffer(requestedCourses[k].collegeId, student.collegeId)

\* requestedCourses.some(c => c.collegeId !== student.collegeId)
CollegeMismatch(student, requestedCourses) ==
  \E k \in 1..Len(requestedCourses) :
    CollegesDiffer(requestedCourses[k].collegeId, student.collegeId)

\* every requested course counts as new
AllCoursesToEnroll(student, requestedCourses) == requestedCourses

\* requestedCourses.filter(c => !currentlyEnrolledIds.has(c.id))
NewCoursesToEnroll(student, requestedCourses) ==
  LET currentlyEnrolledIds ==
        {student.enrollments[k].courseId : k \in 1..Len(student.enrollments)}
  IN  SelectSeq(requestedCourses, LAMBDA c : c.id \notin currentlyEnrolledIds)

\* the rows of createMany: one per new course
EnrollmentData(student, newCoursesToEnroll) ==
  [k \in 1..Len(newCoursesToEnroll) |->
     [studentId |-> student.id, courseId |-> newCoursesToEnroll[k].id]]

\* the variant that throws on a clash only when no requested course is free
\* of conflicts, and otherwise writes the free ones
CheckAndCommitPartial(student, newCoursesToEnroll, conflicts) ==
  LET clashing == {conflicts[k].requested : k \in 1..Len(conflicts)}
      free == SelectSeq(newCoursesToEnroll, LAMBDA c : c.code \notin clashing)
  IN  IF conflicts # <<>>
      THEN Outcome("TIMETABLE_CLASH", <<>>, conflicts, {}, EnrollmentData(student, free))
      ELSE Outcome("COMMIT",
             [k \in 1..Len(newCoursesToEnroll) |-> EnrolledEntry(newCoursesToEnroll[k])],
             <<>>, {}, EnrollmentData(student, newCoursesToEnroll))

\* phases CHECK and COMMIT: throw on any conflict, else hand every new
\* course to createMany
CheckAndCommit(student, newCoursesToEnroll, conflicts) ==
  IF conflicts # <<>>
  THEN Outcome("TIMETABLE_CLASH", <<>>, conflicts, {}, <<>>)
  ELSE Outcome("COMMIT",
         [k \in 1..Len(newCoursesToEnroll) |-> EnrolledEntry(newCoursesToEnroll[k])],
         <<>>, {}, EnrollmentData(student, newCoursesToEnroll))

\* the request on what its two reads returned
enrollInCourses(student, courseIds, requestedCourses) ==
  IF student = NoStudent
  THEN Outcome("STUDENT_NOT_FOUND", <<>>, <<>>, {}, <<>>)
  ELSE IF Len(requestedCourses) # Cardinality(courseIds)
  THEN LET foundIds == {requestedCourses[k].id : k \in 1..Len(requestedCourses)}
       IN  Outcome("COURSE_NOT_FOUND", <<>>, <<>>, courseIds \ foundIds, <<>>)
  ELSE IF CollegeMismatch(student, requestedCourses)
  THEN Outcome("COLLEGE_MISMATCH", <<>>, <<>>, {}, <<>>)
  ELSE
    LET newCoursesToEnroll == NewCoursesToEnroll(student, requestedCourses)
        existingCourses ==
          [k \in 1..Len(student.enrollments) |-> student.enrollments[k].course]
    IN  IF newCoursesToEnroll = <<>>
        THEN Outcome("ALREADY_ENROLLED", <<>>, <<>>, {}, <<>>)
        ELSE CheckAndCommit(student, newCoursesToEnroll,
               findTimetableConflicts(existingCourses, newCoursesToEnroll))

\* a table without the unique index
NoUniqueIndex(data, enr) == FALSE

\* the unique index enrollments_student_id_course_id_key
UniqueViolation(data, enr) ==
  \/ \E k \in 1..Len(data) : data[k] \in Range(enr)
  \/ \E j, k \in 1..Len(data) : j # k /\ data[j] = data[k]

\* the trigger BEFORE INSERT ON enrollments: SIGNAL when the colleges of the
\* student and of the course of a new row differ
check_student_course_college(data) ==
  \E k \in 1..Len(data) :
    CollegesDiffer(CourseCollegeId(data[k].courseId), StudentCollegeId(data[k].studentId))

\* an INSERT that stops after its first row
createFirstOnly(data, enr) ==
  IF UniqueViolation(data, enr) \/ check_student_course_college(data)
  THEN enr ELSE enr \o <<Head(data)>>

\* a write that replaces the table by the rows of the request
createManyOverwriting(data, enr) == data

\* an INSERT row by row: every row the unique index admits is kept
createManyRowByRow(data, enr) ==
  IF check_student_course_college(data) THEN enr
  ELSE enr \o SelectSeq(data, LAMBDA row : row \notin Range(enr))

\* prisma.enrollment.createMany({ data }): one INSERT statement, all rows or none
createMany(data, enr) ==
  IF UniqueViolation(data, enr) \/ check_student_course_college(data)
  THEN enr ELSE enr \o data

\* the answer to a request: the operation and who asked for which courses (an
\* enrollment request), the status, and the body of an enrollment response
Response(op, userId, courseIds, status, enrolled, conflicts) ==
  [op |-> op, userId |-> userId, courseIds |-> courseIds, status |-> status,
   enrolled |-> enrolled, conflicts |-> conflicts]

\* the answer to a timetable request
AdminResponse(op, status) == Response(op, 0, {}, status, <<>>, <<>>)

\* what the request answers once createMany has returned or thrown
EnrollResponse(userId, courseIds, out, enr) ==
  IF out.status # "COMMIT"
  THEN Response("enrollInCourses", userId, courseIds, out.status, out.enrolled, out.conflicts)
  ELSE IF UniqueViolation(out.data, enr)
  THEN Response("enrollInCourses", userId, courseIds, "DUPLICATE_ENTRY", <<>>, <<>>)
  ELSE IF check_student_course_college(out.data)
  THEN Response("enrollInCourses", userId, courseIds, "INTERNAL_ERROR", <<>>, <<>>)
  ELSE Response("enrollInCourses", userId, courseIds, "OK", out.enrolled, <<>>)

\* a whole enrollInCourses request, not interleaved with any other
EnrollInCourses(userId, courseIds) ==
  LET student == FindStudentWithEnrollments(userId, enrollments, timetables)
      requestedCourses == FindCoursesByIds(courseIds, timetables)
      out == enrollInCourses(student, courseIds, requestedCourses)
  IN  /\ enrollments' = IF out.data # <<>>
                        THEN createMany(out.data, enrollments) ELSE enrollments
      /\ res' = EnrollResponse(userId, courseIds, out, enrollments)
      /\ UNCHANGED <<timetables, nextTimetableId, reqs, storedCourses>>


\* ------------------------------------------------------- checkStudentConflicts
\* prisma.student.findMany({ where: { enrollments: { some: { courseId } } } })
EnrolledStudentIds(courseId, enr) ==
  Ascending({s \in Students :
               \E k \in 1..Len(enr) : enr[k].studentId = s /\ enr[k].courseId = courseId})

\* the student's enrollments without the where: the mutated course included
EveryEnrollment(studentId, courseId, enr, tt) ==
  LET rows == SelectSeq(enr, LAMBDA e : e.studentId = studentId)
  IN  [k \in 1..Len(rows) |-> [course |-> CourseWithTimetables(rows[k].courseId, tt)]]

\* the student's enrollments with where: { courseId: { not: courseId } }
OtherEnrollments(studentId, courseId, enr, tt) ==
  LET rows == SelectSeq(enr, LAMBDA e : e.studentId = studentId /\ e.courseId # courseId)
  IN  [k \in 1..Len(rows) |-> [course |-> CourseWithTimetables(rows[k].courseId, tt)]]

\* one entry per (student, new slot, overlapping slot of another course)
checkStudentConflicts(courseId, newSlots, enr, tt) ==
  LET students == EnrolledStudentIds(courseId, enr)
      ofSlot(studentId, newSlot, enrollment) ==
        LET hits == SelectSeq(enrollment.course.timetables,
                      LAMBDA existingSlot : compareTimeSlots(newSlot, existingSlot).overlaps)
        IN  [k \in 1..Len(hits) |->
               [studentId |-> studentId,
                conflictingCourse |-> enrollment.course.code,
                newSlot |-> newSlot,
                existingSlot |-> hits[k].id]]
      ofNewSlot(studentId, newSlot) ==
        LET others == OtherEnrollments(studentId, courseId, enr, tt)
        IN  Flatten([k \in 1..Len(others) |-> ofSlot(studentId, newSlot, others[k])])
      ofStudent(studentId) ==
        Flatten([k \in 1..Len(newSlots) |-> ofNewSlot(studentId, newSlots[k])])
  IN  Flatten([k \in 1..Len(students) |-> ofStudent(students[k])])

\* -------------------------------------------------------- createTimetableSlots
\* the loop with the overlap test first: an identical slot is a time conflict
RECURSIVE CheckNewSlotsOverlapFirst(_, _, _)
CheckNewSlotsOverlapFirst(i, timetableSlots, existingSlots) ==
  IF i > Len(timetableSlots) THEN "OK"
  ELSE
    LET newSlot == timetableSlots[i]
    IN  IF \E k \in 1..Len(existingSlots) :
               \/ compareTimeSlots(newSlot, existingSlots[k]).isIdentical
               \/ compareTimeSlots(newSlot, existingSlots[k]).overlaps
        THEN "TIME_CONFLICT"
        ELSE IF \E j \in (i + 1)..Len(timetableSlots) :
                  \/ compareTimeSlots(newSlot, timetableSlots[j]).isIdentical
                  \/ compareTimeSlots(newSlot, timetableSlots[j]).overlaps
        THEN "DUPLICATE_OR_OVERLAPPING_IN_REQUEST"
        ELSE CheckNewSlotsOverlapFirst(i + 1, timetableSlots, existingSlots)

\* the first error of the loop over the new slots, or "OK"
RECURSIVE CheckNewSlots(_, _, _)
CheckNewSlots(i, timetableSlots, existingSlots) ==
  IF i > Len(timetableSlots) THEN "OK"
  ELSE
    LET newSlot == timetableSlots[i]
        bad == {k \in 1..Len(existingSlots) :
                  \/ compareTimeSlots(newSlot, existingSlots[k]).isIdentical
                  \/ compareTimeSlots(newSlot, existingSlots[k]).overlaps}
        first == CHOOSE k \in bad : \A j \in bad : k <= j
    IN  IF bad # {}
        THEN IF compareTimeSlots(newSlot, existingSlots[first]).isIdentical
             THEN "SLOT_ALREADY_EXISTS" ELSE "TIME_CONFLICT"
        ELSE IF \E j \in (i + 1)..Len(timetableSlots) :
                  \/ compareTimeSlots(newSlot, timetableSlots[j]).isIdentical
                  \/ compareTimeSlots(newSlot, timetableSlots[j]).overlaps
        THEN "DUPLICATE_OR_OVERLAPPING_IN_REQUEST"
        ELSE CheckNewSlots(i + 1, timetableSlots, existingSlots)

\* the rows prisma.timetable.createMany adds for the slots of a request
NewRows(courseId, slots, firstId) ==
  [k \in 1..Len(slots) |->
     [id |-> firstId + k - 1, courseId |-> courseId,
      dayOfWeek |-> slots[k].dayOfWeek,
      startTime |-> WriteTime(timeStringToDate(slots[k].startTime)),
      endTime |-> WriteTime(timeStringToDate(slots[k].endTime))]]

createTimetableSlots(courseId, timetableSlots, enr, tt) ==
  IF courseId \notin Courses THEN [status |-> "COURSE_NOT_FOUND", conflicts |-> <<>>]
  ELSE
    LET existingSlots == TimetablesOfCourse(courseId, tt)
        structural == CheckNewSlots(1, timetableSlots, existingSlots)
        conflicts == checkStudentConflicts(courseId, timetableSlots, enr, tt)
    IN  IF structural # "OK" THEN [status |-> structural, conflicts |-> <<>>]
        ELSE IF Len(conflicts) > 0
        THEN [status |-> "TIMETABLE_UPDATE_CONFLICT", conflicts |-> conflicts]
        ELSE [status |-> "OK", conflicts |-> <<>>]

\* a handler that writes the rows once the course's own slots are checked and
\* looks at the students afterwards
CreateTimetableSlotsWriteFirst(courseId, timetableSlots) ==
  LET out == createTimetableSlots(courseId, timetableSlots, enrollments, timetables)
  IN  /\ IF out.status \in {"OK", "TIMETABLE_UPDATE_CONFLICT"}
         THEN /\ timetables' = timetables \o NewRows(courseId, timetableSlots, nextTimetableId)
              /\ nextTimetableId' = nextTimetableId + Len(timetableSlots)
         ELSE UNCHANGED <<timetables, nextTimetableId>>
      /\ res' = AdminResponse("createTimetableSlots", out.status)
      /\ UNCHANGED <<enrollments, reqs, storedCourses>>

CreateTimetableSlots(courseId, timetableSlots) ==
  LET out == createTimetableSlots(courseId, timetableSlots, enrollments, timetables)
  IN  /\ IF out.status = "OK"
         THEN /\ timetables' = timetables \o NewRows(courseId, timetableSlots, nextTimetableId)
              /\ nextTimetableId' = nextTimetableId + Len(timetableSlots)
         ELSE UNCHANGED <<timetables, nextTimetableId>>
      /\ res' = AdminResponse("createTimetableSlots", out.status)
      /\ UNCHANGED <<enrollments, reqs, storedCourses>>

\* --------------------------------------------------------- updateTimetableSlot
Absent == [type |-> "undefined"]

\* prisma.timetable.findUnique({ where: { id } })
FindTimetable(timetableId, tt) ==
  IF \E k \in 1..Len(tt) : tt[k].id = timetableId
  THEN ReadSlot(tt[CHOOSE k \in 1..Len(tt) : tt[k].id = timetableId])
  ELSE NoRow

\* updateData.x || stored x
UpdatedSlot(timetable, updateData) ==
  [dayOfWeek |-> IF updateData.dayOfWeek # 0 THEN updateData.dayOfWeek
                 ELSE timetable.dayOfWeek,
   startTime |-> IF updateData.startTime # Absent THEN updateData.startTime
                 ELSE formatTime(timetable.startTime),
   endTime |-> IF updateData.endTime # Absent THEN updateData.endTime
               ELSE formatTime(timetable.endTime)]

updateTimetableSlot(adminId, timetableId, updateData, enr, tt) ==
  LET timetable == FindTimetable(timetableId, tt)
      updatedSlot == UpdatedSlot(timetable, updateData)
      otherSlots == SelectSeq(TimetablesOfCourse(timetable.courseId, tt),
                              LAMBDA r : r.id # timetableId)
      conflicts == checkStudentConflicts(timetable.courseId, <<updatedSlot>>, enr, tt)
  IN  IF timetable = NoRow
      THEN [status |-> "TIMETABLE_SLOT_NOT_FOUND", conflicts |-> <<>>]
      ELSE IF CourseCollegeId(timetable.courseId) # AdminCollegeId(adminId)
      THEN [status |-> "COLLEGE_ACCESS_DENIED", conflicts |-> <<>>]
      ELSE IF \E k \in 1..Len(otherSlots) :
                \/ compareTimeSlots(updatedSlot, otherSlots[k]).isIdentical
                \/ compareTimeSlots(updatedSlot, otherSlots[k]).overlaps
      THEN [status |-> "TIME_CONFLICT", conflicts |-> <<>>]
      ELSE IF Len(conflicts) > 0
      THEN [status |-> "TIMETABLE_UPDATE_CONFLICT", conflicts |-> conflicts]
      ELSE [status |-> "OK", conflicts |-> <<>>]

\* prisma.timetable.update: the row with the data of the request
UpdatedRow(row, updateData) ==
  LET timetable == ReadSlot(row)
  IN  [id |-> row.id, courseId |-> row.courseId,
       dayOfWeek |-> UpdatedSlot(timetable, updateData).dayOfWeek,
       startTime |-> IF updateData.startTime # Absent
                     THEN WriteTime(timeStringToDate(updateData.startTime))
                     ELSE WriteTime(timetable.startTime),
       endTime |-> IF updateData.endTime # Absent
                   THEN WriteTime(timeStringToDate(updateData.endTime))
                   ELSE WriteTime(timetable.endTime)]

UpdateTimetableSlot(adminId, timetableId, updateData) ==
  LET out == updateTimetableSlot(adminId, timetableId, updateData, enrollments, timetables)
  IN  /\ timetables' = IF out.status = "OK"
                       THEN [k \in 1..Len(timetables) |->
                               IF timetables[k].id = timetableId
                               THEN UpdatedRow(timetables[k], updateData)
                               ELSE timetables[k]]
                       ELSE timetables
      /\ res' = AdminResponse("updateTimetableSlot", out.status)
      /\ UNCHANGED <<nextTimetableId, enrollments, reqs, storedCourses>>

\* --------------------------------------------------------- deleteTimetableSlot
\* the deletion without the comparison of the colleges
deleteTimetableSlotAnyCollege(adminId, timetableId, tt) ==
  IF FindTimetable(timetableId, tt) = NoRow THEN "TIMETABLE_SLOT_NOT_FOUND" ELSE "OK"

deleteTimetableSlot(adminId, timetableId, tt) ==
  LET timetable == FindTimetable(timetableId, tt)
  IN  IF timetable = NoRow THEN "TIMETABLE_SLOT_NOT_FOUND"
      ELSE IF CourseCollegeId(timetable.courseId) # AdminCollegeId(adminId)
      THEN "COLLEGE_ACCESS_DENIED"
      ELSE "OK"

DeleteTimetableSlot(adminId, timetableId) ==
  LET status == deleteTimetableSlot(adminId, timetableId, timetables)
  IN  /\ timetables' = IF status = "OK"
                       THEN SelectSeq(timetables, LAMBDA r : r.id # timetableId)
                       ELSE timetables
      /\ res' = AdminResponse("deleteTimetableSlot", status)
      /\ UNCHANGED <<nextTimetableId, enrollments, reqs, storedCourses>>

\* ------------------------------------------------------------- manageTimetable
\* timetables of the other courses the enrolled students hold
StudentSchedules(courseId, enrolledStudentIds, enr, tt) ==
  LET rows == SelectSeq(tt, LAMBDA r :
                /\ r.courseId # courseId
                /\ \E k \in 1..Len(enr) : /\ enr[k].courseId = r.courseId
                                          /\ enr[k].studentId \in Range(enrolledStudentIds))
  IN  [k \in 1..Len(rows) |-> ReadSlot(rows[k])]

\* the check in memory: DateTimes of the request against DateTimes of the rows
InlineClash(newSlot, existingSlot) ==
  LET newStartTime == fromFormat(newSlot.startTime)
      newEndTime == fromFormat(newSlot.endTime)
      existingStartTime == fromJSDate(existingSlot.startTime)
      existingEndTime == fromJSDate(existingSlot.endTime)
  IN  /\ newSlot.dayOfWeek = existingSlot.dayOfWeek
      /\ newStartTime < existingEndTime
      /\ existingStartTime < newEndTime

manageTimetable(courseId, timetableData, enr, tt) ==
  IF courseId \notin Courses THEN "COURSE_NOT_FOUND"
  ELSE
    LET enrolledStudentIds == EnrolledStudentIds(courseId, enr)
        studentSchedules == StudentSchedules(courseId, enrolledStudentIds, enr, tt)
    IN  IF /\ Len(enrolledStudentIds) > 0
           /\ \E i \in 1..Len(timetableData), k \in 1..Len(studentSchedules) :
                 InlineClash(timetableData[i], studentSchedules[k])
        THEN "TIMETABLE_UPDATE_CONFLICT"
        ELSE "OK"

ManageTimetable(courseId, timetableData) ==
  LET status == manageTimetable(courseId, timetableData, enrollments, timetables)
  IN  /\ IF status = "OK"
         THEN /\ timetables' = SelectSeq(timetables, LAMBDA r : r.courseId # courseId)
                               \o NewRows(courseId, timetableData, nextTimetableId)
              /\ nextTimetableId' = nextTimetableId + Len(timetableData)
         ELSE UNCHANGED <<timetables, nextTimetableId>>
      /\ res' = AdminResponse("manageTimetable", status)
      /\ UNCHANGED <<enrollments, reqs, storedCourses>>

\* -------------------------------------------------------------------- requests
\* a slot of a request body: day of week and two 'HH:mm' strings, end after start
RequestSlots ==
  {x \in [dayOfWeek : Days, startTime : {StringTime(t) : t \in Times},
          endTime : {StringTime(t) : t \in Times}] : x.startTime.hhmm < x.endTime.hhmm}

SlotLists == UNION {[1..n -> RequestSlots] : n \in 1..MaxNewSlots}

\* the body of a PATCH: a new day, new times, or both
UpdateBodies ==
  {u \in [dayOfWeek : {0} \cup Days,
          startTime : {Absent} \cup {StringTime(t) : t \in Times},
          endTime : {Absent} \cup {StringTime(t) : t \in Times}] :
     /\ (u.startTime = Absent) = (u.endTime = Absent)
     /\ u.startTime # Absent => u.startTime.hhmm < u.endTime.hhmm
     /\ u.startTime = Absent => u.dayOfWeek # 0}

CourseIdSets == {ids \in SUBSET CourseIds : ids # {} /\ Cardinality(ids) <= MaxRequest}

\* the seeded timetable: courses 3 and 4 meet on day 1 from the second to the
\* third time of Times (rows 1 and 2)
SeedSlot ==
  [dayOfWeek |-> 1, startTime |-> StringTime(ZoneOffset), endTime |-> StringTime(ZoneOffset + 1)]
SeedTimetables == NewRows(3, <<SeedSlot>>, 1) \o NewRows(4, <<SeedSlot>>, 2)
\* the seeded enrollments: student 2 holds course 3
SeedEnrollments == <<[studentId |-> 2, courseId |-> 3]>>
MaxTimetableId == Len(SeedTimetables) + MaxNewRows
\* the course whose timetable the admin requests change and the rows they
\* name: the ids of the rows created after the seeded ones
MutableCourses == {1}
RowIds == (Len(SeedTimetables) + 1)..MaxTimetableId
\* enrollment requests: student 1 asks for any set of ids, user 3 (who has
\* no student profile) for course 1
EnrollRequests == {<<1, ids>> : ids \in CourseIdSets} \cup {<<3, {1}>>}
\* PATCH requests: the admin of the course's college sends any body, the
\* admin of the other college a change of day
UpdateRequests ==
  {<<1, id, u>> : id \in RowIds, u \in UpdateBodies}
  \cup {<<2, id, u>> : id \in RowIds, u \in {b \in UpdateBodies : b.startTime = Absent}}

NoResponse == AdminResponse("none", "none")

Init ==
  /\ timetables = SeedTimetables
  /\ nextTimetableId = Len(SeedTimetables) + 1
  /\ enrollments = SeedEnrollments
  /\ res = NoResponse
  /\ reqs = <<>>
  /\ storedCourses = Courses

\* the table still has ids for the rows of the request
IdsLeft(slots) == nextTimetableId + Len(slots) - 1 <= MaxTimetableId

Enroll == \E r \in EnrollRequests : EnrollInCourses(r[1], r[2])
Create == \E courseId \in MutableCourses, slots \in SlotLists :
            IdsLeft(slots) /\ CreateTimetableSlots(courseId, slots)
Update == \E r \in UpdateRequests : UpdateTimetableSlot(r[1], r[2], r[3])
Delete == \E adminId \in Admins, id \in RowIds : DeleteTimetableSlot(adminId, id)
Manage == \E courseId \in MutableCourses, slots \in SlotLists :
            IdsLeft(slots) /\ ManageTimetable(courseId, slots)

Next == Enroll \/ Create \/ Update \/ Delete \/ Manage

Spec == Init /\ [][Next]_vars

\* ------------------------------------------------------ interleaved requests
\* A request in flight is between two of its awaits: reqs keeps what it has
\* read so far.  An enrollInCourses request awaits student.findUnique,
\* course.findMany and enrollment.createMany; a createTimetableSlots request
\* awaits its reads and then timetable.createMany.
NoOutcome == Outcome("none", <<>>, <<>>, {}, <<>>)

EnrollRequest(pc, userId, courseIds, student, out) ==
  [op |-> "enrollInCourses", pc |-> pc, userId |-> userId, courseIds |-> courseIds,
   student |-> student, out |-> out, courseId |-> 0, timetableSlots |-> <<>>]

CreateRequest(courseId, timetableSlots) ==
  [op |-> "createTimetableSlots", pc |-> "createMany", userId |-> 0, courseIds |-> {},
   student |-> NoStudent, out |-> NoOutcome, courseId |-> courseId,
   timetableSlots |-> timetableSlots]

\* the requests in flight without the i-th, which has answered
Answered(i) == SubSeq(reqs, 1, i - 1) \o SubSeq(reqs, i + 1, Len(reqs))

\* the requests in flight with the i-th moved on to r
MovedOn(i, r) == [reqs EXCEPT ![i] = r]

InFlight(op) == {i \in 1..Len(reqs) : reqs[i].op = op}

\* await prisma.student.findUnique(...), then the throw if there is no student
EnrollFindStudent(userId, courseIds) ==
  LET student == FindStudentWithEnrollments(userId, enrollments, timetables)
  IN  /\ IF student = NoStudent
         THEN /\ res' = EnrollResponse(userId, courseIds,
                          enrollInCourses(student, courseIds, <<>>), enrollments)
              /\ UNCHANGED reqs
         ELSE /\ reqs' = Append(reqs, EnrollRequest("findMany", userId, courseIds,
                                                    student, NoOutcome))
              /\ UNCHANGED res
      /\ UNCHANGED db

\* await prisma.course.findMany(...), then phases VALIDATE and CHECK on the
\* student read before
EnrollFindCourses(i) ==
  /\ reqs[i].op = "enrollInCourses"
  /\ reqs[i].pc = "findMany"
  /\ LET r == reqs[i]
         requestedCourses == FindCoursesByIds(r.courseIds, timetables)
         out == enrollInCourses(r.student, r.courseIds, requestedCourses)
     IN  IF out.data = <<>>
         THEN /\ res' = EnrollResponse(r.userId, r.courseIds, out, enrollments)
              /\ reqs' = Answered(i)
         ELSE /\ reqs' = MovedOn(i, EnrollRequest("createMany", r.userId, r.courseIds,
                                                  r.student, out))
              /\ UNCHANGED res
  /\ UNCHANGED db

\* await prisma.enrollment.createMany(...), then the answer
EnrollCreateMany(i) ==
  /\ reqs[i].op = "enrollInCourses"
  /\ reqs[i].pc = "createMany"
  /\ enrollments' = createMany(reqs[i].out.data, enrollments)
  /\ res' = EnrollResponse(reqs[i].userId, reqs[i].courseIds, reqs[i].out, enrollments)
  /\ reqs' = Answered(i)
  /\ UNCHANGED <<timetables, nextTimetableId, storedCourses>>

\* createTimetableSlots up to its write: the reads and the checks on them
CreateCheck(courseId, timetableSlots) ==
  LET out == createTimetableSlots(courseId, timetableSlots, enrollments, timetables)
  IN  /\ IF out.status = "OK"
         THEN /\ reqs' = Append(reqs, CreateRequest(courseId, timetableSlots))
              /\ UNCHANGED res
         ELSE /\ res' = AdminResponse("createTimetableSlots", out.status)
              /\ UNCHANGED reqs
      /\ UNCHANGED db

\* await prisma.timetable.createMany(...), then the answer
CreateWrite(i) ==
  /\ reqs[i].op = "createTimetableSlots"
  /\ timetables' = timetables \o
       NewRows(reqs[i].courseId, reqs[i].timetableSlots, nextTimetableId)
  /\ nextTimetableId' = nextTimetableId + Len(reqs[i].timetableSlots)
  /\ res' = AdminResponse("createTimetableSlots", "OK")
  /\ reqs' = Answered(i)
  /\ UNCHANGED <<enrollments, storedCourses>>

\* ------------------------------------------- two enrollment requests at once
\* requests in flight at one time
MaxInFlight == 2

\* student 1 asks for courses of their college
RaceRequests ==
  {<<1, ids>> : ids \in {x \in SUBSET {1, 2, 3} : x # {} /\ Cardinality(x) <= MaxRequest}}

\* course 1 was given the slot of course 3 while no student held both
RaceTimetables == SeedTimetables \o NewRows(1, <<SeedSlot>>, Len(SeedTimetables) + 1)

InitEnrollRace ==
  /\ timetables = RaceTimetables
  /\ nextTimetableId = Len(RaceTimetables) + 1
  /\ enrollments = SeedEnrollments
  /\ res = NoResponse
  /\ reqs = <<>>
  /\ storedCourses = Courses

RaceFindStudent ==
  \E r \in RaceRequests : Len(reqs) < MaxInFlight /\ EnrollFindStudent(r[1], r[2])
RaceFindCourses == \E i \in 1..Len(reqs) : EnrollFindCourses(i)
RaceCreateMany == \E i \in 1..Len(reqs) : EnrollCreateMany(i)

NextEnrollRace == RaceFindStudent \/ RaceFindCourses \/ RaceCreateMany

SpecEnrollRace == InitEnrollRace /\ [][NextEnrollRace]_vars

\* ------------------------- an enrollment request and a timetable request at once
\* slots whose stored start and end fall on one UTC day
PlainSlots == {x \in RequestSlots : x.startTime.hhmm >= ZoneOffset}
PlainSlotLists == UNION {[1..n -> PlainSlots] : n \in 1..MaxNewSlots}

GuardFindStudent ==
  \E r \in RaceRequests :
    InFlight("enrollInCourses") = {} /\ EnrollFindStudent(r[1], r[2])
GuardFindCourses == \E i \in 1..Len(reqs) : EnrollFindCourses(i)
GuardCreateMany == \E i \in 1..Len(reqs) : EnrollCreateMany(i)
GuardCheck ==
  \E courseId \in MutableCourses, slots \in PlainSlotLists :
    /\ InFlight("createTimetableSlots") = {}
    /\ IdsLeft(slots)
    /\ CreateCheck(courseId, slots)
GuardWrite == \E i \in 1..Len(reqs) : CreateWrite(i)

NextGuardRace ==
  GuardFindStudent \/ GuardFindCourses \/ GuardCreateMany \/ GuardCheck \/ GuardWrite

SpecGuardRace == Init /\ [][NextGuardRace]_vars

\* ------------------------------------------- two timetable requests at once
\* the slots of the createTimetableSlots requests in flight from the i-th on
RECURSIVE SlotsInFlight(_)
SlotsInFlight(i) ==
  IF i > Len(reqs) THEN 0
  ELSE Len(reqs[i].timetableSlots) + SlotsInFlight(i + 1)

SlotRaceCheck ==
  \E courseId \in MutableCourses, slots \in SlotLists :
    /\ Len(reqs) < MaxInFlight
    /\ nextTimetableId + SlotsInFlight(1) + Len(slots) - 1 <= MaxTimetableId
    /\ CreateCheck(courseId, slots)
SlotRaceWrite == \E i \in 1..Len(reqs) : CreateWrite(i)

NextSlotRace == SlotRaceCheck \/ SlotRaceWrite

SpecSlotRace == Init /\ [][NextSlotRace]_vars

\* ------------------------------------------------- the two overlap checks
\* slots over one more half hour than Times: ranges before, across and after
\* the local time that is 00:00 UTC
OverlapTimes == (ZoneOffset - 1)..(ZoneOffset + MaxTimeSpan)
OverlapSlots ==
  {x \in [dayOfWeek : Days, startTime : {StringTime(t) : t \in OverlapTimes},
          endTime : {StringTime(t) : t \in OverlapTimes}] :
     x.startTime.hhmm < x.endTime.hhmm}

\* courses 1 and 3 with one stored slot each
InitOverlap ==
  /\ \E a, b \in OverlapSlots : timetables = NewRows(1, <<a>>, 1) \o NewRows(3, <<b>>, 2)
  /\ nextTimetableId = 3
  /\ enrollments = SeedEnrollments
  /\ res = NoResponse
  /\ reqs = <<>>
  /\ storedCourses = Courses

Verdict(op, overlaps, conflicts) ==
  Response(op, 0, {}, IF overlaps THEN "OVERLAP" ELSE "NO_OVERLAP", <<>>, conflicts)

\* compareTimeSlots on the slot of course 1 and the slot of course 3
ApplyCompareTimeSlots ==
  /\ res' = Verdict("compareTimeSlots",
                    compareTimeSlots(TimetablesOfCourse(1, timetables)[1],
                                     TimetablesOfCourse(3, timetables)[1]).overlaps,
                    <<>>)
  /\ UNCHANGED <<db, reqs>>

\* findTimetableConflicts for course 1 requested by a student who holds course 3
ApplyFindTimetableConflicts ==
  LET conflicts == findTimetableConflicts(<<CourseWithTimetables(3, timetables)>>,
                                          <<CourseWithTimetables(1, timetables)>>)
  IN  /\ res' = Verdict("findTimetableConflicts", conflicts # <<>>, conflicts)
      /\ UNCHANGED <<db, reqs>>

NextOverlap == ApplyCompareTimeSlots \/ ApplyFindTimetableConflicts

SpecOverlap == InitOverlap /\ [][NextOverlap]_vars

\* ------------------------------------------- the checks on one pair of slots
\* the slot of a stored row as a request proposes it: 'HH:mm' strings
ProposedSlot(row) ==
  [dayOfWeek |-> row.dayOfWeek,
   startTime |-> formatTime(ReadTime(row.startTime)),
   endTime |-> formatTime(ReadTime(row.endTime))]

\* compareTimeSlots(newSlot, existingSlot) and compareTimeSlots(existingSlot,
\* newSlot) for the slot of course 1 as proposed and the slot of course 3 as stored
CompareBothWays ==
  LET newSlot == ProposedSlot(timetables[1])
      existingSlot == ReadSlot(timetables[2])
  IN  /\ res' = Response("compareTimeSlots", 0, {}, "BOTH_WAYS", <<>>,
                         <<compareTimeSlots(newSlot, existingSlot),
                           compareTimeSlots(existingSlot, newSlot)>>)
      /\ UNCHANGED <<db, reqs>>

\* every check of the system on the slot of course 1 (as proposed, and as
\* stored) and the stored slot of course 3
ApplyEveryCheck ==
  LET newSlot == ProposedSlot(timetables[1])
      existingSlot == ReadSlot(timetables[2])
      newCourses == <<CourseWithTimetables(1, timetables)>>
      existingCourses == <<CourseWithTimetables(3, timetables)>>
  IN  /\ res' = Response("every check", 0, {}, "VERDICTS", <<>>,
             <<[inline |-> InlineClash(newSlot, existingSlot),
                compare |-> compareTimeSlots(newSlot, existingSlot).overlaps,
                find |-> findTimetableConflicts(existingCourses, newCourses) # <<>>,
                helper |-> checkTimetableConflictsHelper(existingCourses, newCourses) # <<>>]>>)
      /\ UNCHANGED <<db, reqs>>

NextRule == CompareBothWays \/ ApplyEveryCheck

SpecRule == InitOverlap /\ [][NextRule]_vars

\* ------------------------------------------------- PATCH of one timetable row
\* the body of PATCH /api/admin/timetables/:timetableId: each of dayOfWeek,
\* startTime and endTime may be left out; when both times are given the end
\* is after the start
PatchBodies ==
  {u \in [dayOfWeek : {0} \cup Days,
          startTime : {Absent} \cup {StringTime(t) : t \in OverlapTimes},
          endTime : {Absent} \cup {StringTime(t) : t \in OverlapTimes}] :
     /\ (u.startTime # Absent /\ u.endTime # Absent) => u.startTime.hhmm < u.endTime.hhmm
     /\ u.dayOfWeek # 0 \/ u.startTime # Absent \/ u.endTime # Absent}

\* the row the requests name: the first one after the seeded rows
PatchedRowId == Len(SeedTimetables) + 1

\* the seeded courses, course 1 with one slot, and student 1 enrolled in
\* course 1 alone or, where the slots allow it, in courses 1 and 3
InitPatch ==
  /\ \E a \in OverlapSlots, held \in {<<1>>, <<1, 3>>} :
       /\ 3 \in Range(held) => ~compareTimeSlots(a, SeedSlot).overlaps
       /\ timetables = SeedTimetables \o NewRows(1, <<a>>, PatchedRowId)
       /\ enrollments = SeedEnrollments
                        \o [k \in 1..Len(held) |-> [studentId |-> 1, courseId |-> held[k]]]
  /\ nextTimetableId = PatchedRowId + 1
  /\ res = NoResponse
  /\ reqs = <<>>
  /\ storedCourses = Courses

Patch == \E adminId \in Admins, u \in PatchBodies :
           UpdateTimetableSlot(adminId, PatchedRowId, u)

NextPatch == Patch

SpecPatch == InitPatch /\ [][NextPatch]_vars

\* --------------------------------------------------- POST /api/enrollments
\* a member of the JSON array courseIds: the number n, or the string whose
\* digits spell n
JsonNumber(n) == [type |-> "number", value |-> n]
JsonString(n) == [type |-> "string", value |-> n]
BodyValues == {JsonNumber(n) : n \in CourseIds} \cup {JsonString(n) : n \in CourseIds}
Bodies == UNION {[1..n -> BodyValues] : n \in 1..MaxRequest}

\* validateArray('courseIds', { minLength: 1, unique: true }), on the body as
\* it was parsed: a Set holds a number and a string as two values
validateArray(array) ==
  /\ Len(array) >= 1
  /\ Cardinality(Range(array)) = Len(array)

\* body('courseIds.*').isInt({ min: 1 })
isInt(v) == v.value >= 1

\* .toInt(): the number a value spells
toInt(v) == v.value

\* enrollCoursesValidation: the array the controller reads from req.body
SanitizedCourseIds(array) == [k \in 1..Len(array) |-> toInt(array[k])]

\* enrollInCourses on the array of the request
enrollInCoursesArray(student, courseIds, requestedCourses) ==
  IF student = NoStudent
  THEN Outcome("STUDENT_NOT_FOUND", <<>>, <<>>, <<>>, <<>>)
  ELSE IF Len(requestedCourses) # Len(courseIds)
  THEN LET foundIds == {requestedCourses[k].id : k \in 1..Len(requestedCourses)}
       IN  Outcome("COURSE_NOT_FOUND", <<>>, <<>>,
                   SelectSeq(courseIds, LAMBDA id : id \notin foundIds), <<>>)
  ELSE enrollInCourses(student, Range(courseIds), requestedCourses)

\* the answer to the request: the array the service was given and, for a
\* missing course, the ids its message names
BodyResponse(userId, courseIds, status, enrolled, notFound) ==
  [op |-> "POST /api/enrollments", userId |-> userId, courseIds |-> courseIds,
   status |-> status, enrolled |-> enrolled, notFound |-> notFound]

PostEnrollments(userId, array) ==
  IF ~(validateArray(array) /\ \A k \in 1..Len(array) : isInt(array[k]))
  THEN /\ res' = BodyResponse(userId, <<>>, "VALIDATION_ERROR", <<>>, <<>>)
       /\ UNCHANGED <<db, reqs>>
  ELSE
    LET courseIds == SanitizedCourseIds(array)
        student == FindStudentWithEnrollments(userId, enrollments, timetables)
        requestedCourses == FindCoursesByIds(Range(courseIds), timetables)
        out == enrollInCoursesArray(student, courseIds, requestedCourses)
        answer == EnrollResponse(userId, Range(courseIds), out, enrollments)
    IN  /\ enrollments' = IF out.data # <<>>
                          THEN createMany(out.data, enrollments) ELSE enrollments
        /\ res' = BodyResponse(userId, courseIds, answer.status, answer.enrolled,
                               IF out.status = "COURSE_NOT_FOUND" THEN out.notFound ELSE <<>>)
        /\ UNCHANGED <<timetables, nextTimetableId, reqs, storedCourses>>

\* student 1 and user 3, who has no student record, post any array
NextBody == \E userId \in {1, 3}, array \in Bodies : PostEnrollments(userId, array)

SpecBody == Init /\ [][NextBody]_vars

\* ------------------------------------- POST /api/enrollments/check-conflicts
\* checkTimetableConflicts on what its two reads returned
checkTimetableConflicts(student, newCourses) ==
  IF student = NoStudent
  THEN [status |-> "STUDENT_NOT_FOUND", conflicts |-> <<>>]
  ELSE LET existingCourses ==
             [k \in 1..Len(student.enrollments) |-> student.enrollments[k].course]
       IN  [status |-> "OK",
            conflicts |-> checkTimetableConflictsHelper(existingCourses, newCourses)]

\* the controller: 200 with the conflicts, 500 for any error
CheckConflicts(userId, courseIds) ==
  LET student == FindStudentWithEnrollments(userId, enrollments, timetables)
      newCourses == FindCoursesByIds(courseIds, timetables)
      out == checkTimetableConflicts(student, newCourses)
  IN  /\ res' = Response("checkTimetableConflicts", userId, courseIds,
                         IF out.status = "OK" THEN "OK" ELSE "INTERNAL_ERROR",
                         <<>>, out.conflicts)
      /\ UNCHANGED <<db, reqs>>

Check == \E userId \in {1, 3}, courseIds \in CourseIdSets : CheckConflicts(userId, courseIds)

\* courses 1 and 3 with one stored slot each
InitCheck ==
  /\ \E a, b \in RequestSlots : timetables = NewRows(1, <<a>>, 1) \o NewRows(3, <<b>>, 2)
  /\ nextTimetableId = 3
  /\ enrollments = SeedEnrollments
  /\ res = NoResponse
  /\ reqs = <<>>
  /\ storedCourses = Courses

\* students enroll and ask for conflicts
NextCheck == Enroll \/ Check

SpecCheck == InitCheck /\ [][NextCheck]_vars

\* ------------------------------------- DELETE /api/admin/courses/:courseId
\* isSameCollege: the college of the admin against the college of the course
isSameCollege(adminId, courseId, crs) ==
  IF courseId \notin crs THEN "COLLEGE_INFORMATION_NOT_FOUND"
  ELSE IF AdminCollegeId(adminId) # CourseCollegeId(courseId) THEN "ACCESS_DENIED"
  ELSE "OK"

\* a service that deletes whatever course it is given
deleteCourseUnchecked(courseId, enr) == "OK"

\* adminService.deleteCourse: blocked while any enrollment references the course
deleteCourse(courseId, enr) ==
  IF \E k \in 1..Len(enr) : enr[k].courseId = courseId
  THEN "COURSE_DELETE_HAS_ENROLLMENTS"
  ELSE "OK"

\* timetables_course_id_fkey and enrollments_course_id_fkey, ON DELETE CASCADE:
\* the rows a DELETE of the course leaves
CascadeDelete(courseId, rows) == SelectSeq(rows, LAMBDA r : r.courseId # courseId)

DeleteCourse(adminId, courseId) ==
  LET access == isSameCollege(adminId, courseId, storedCourses)
      status == IF access # "OK" THEN access ELSE deleteCourse(courseId, enrollments)
  IN  /\ IF status = "OK"
         THEN /\ storedCourses' = storedCourses \ {courseId}
              /\ timetables' = CascadeDelete(courseId, timetables)
              /\ enrollments' = CascadeDelete(courseId, enrollments)
         ELSE UNCHANGED <<storedCourses, timetables, enrollments>>
      /\ res' = Response("deleteCourse", adminId, {courseId}, status, <<>>, <<>>)
      /\ UNCHANGED <<nextTimetableId, reqs>>

\* the enrollments of the students in courses of their college, in any
\* combination (only course 3 has a slot, so none of them clashes)
EnrollmentTables ==
  LET pairs == {p \in Students \X Courses : CourseCollegeId(p[2]) = StudentCollegeId(p[1])}
      key(p) == p[1] * (Cardinality(CourseIds) + 1) + p[2]
      rows(ps) == LET ks == Ascending({key(p) : p \in ps})
                  IN  [i \in 1..Len(ks) |->
                         LET p == CHOOSE q \in ps : key(q) = ks[i]
                         IN  [studentId |-> p[1], courseId |-> p[2]]]
  IN  {rows(ps) : ps \in SUBSET pairs}

InitDeleteCourse ==
  /\ timetables = SeedTimetables
  /\ nextTimetableId = Len(SeedTimetables) + 1
  /\ enrollments \in EnrollmentTables
  /\ res = NoResponse
  /\ reqs = <<>>
  /\ storedCourses = Courses

NextDeleteCourse == \E adminId \in Admins, courseId \in CourseIds : DeleteCourse(adminId, courseId)

SpecDeleteCourse == InitDeleteCourse /\ [][NextDeleteCourse]_vars

\* -------------------------------------- the order of the list of conflicts
\* courses 1 and 2 with two slots and one slot, course 3, which student 1
\* holds, with two slots
InitOrder ==
  /\ \E a, b, c, d, e \in RequestSlots :
       timetables = NewRows(1, <<a, b>>, 1) \o NewRows(2, <<c>>, 3) \o NewRows(3, <<d, e>>, 4)
  /\ nextTimetableId = 6
  /\ enrollments = SeedEnrollments \o <<[studentId |-> 1, courseId |-> 3]>>
  /\ res = NoResponse
  /\ reqs = <<>>
  /\ storedCourses = Courses

\* findTimetableConflicts on the courses student 1 holds and the courses of
\* a request
ApplyFindOnRequest(courseIds) ==
  LET student == FindStudentWithEnrollments(1, enrollments, timetables)
      existingCourses == [k \in 1..Len(student.enrollments) |-> student.enrollments[k].course]
      newCourses == FindCoursesByIds(courseIds, timetables)
  IN  /\ res' = Response("findTimetableConflicts", 1, courseIds, "LIST", <<>>,
                         findTimetableConflicts(existingCourses, newCourses))
      /\ UNCHANGED <<db, reqs>>

NextOrder == \E courseIds \in (SUBSET {1, 2}) \ {{}} : ApplyFindOnRequest(courseIds)

SpecOrder == InitOrder /\ [][NextOrder]_vars

\* ------------------------------------------- checkStudentConflicts on its own
\* courses 1 and 2 with one slot each on the day of the seeded slots, and
\* any enrollments of the two students
InitStudentConflicts ==
  /\ \E a, b \in {x \in RequestSlots : x.dayOfWeek = SeedSlot.dayOfWeek} :
       timetables = SeedTimetables \o NewRows(1, <<a>>, Len(SeedTimetables) + 1)
                                   \o NewRows(2, <<b>>, Len(SeedTimetables) + 2)
  /\ nextTimetableId = Len(SeedTimetables) + 3
  /\ enrollments \in EnrollmentTables
  /\ res = NoResponse
  /\ reqs = <<>>
  /\ storedCourses = Courses

\* the list checkStudentConflicts returns for slots proposed for a course
ApplyCheckStudentConflicts(courseId, newSlots) ==
  /\ res' = [op |-> "checkStudentConflicts", status |-> "LIST", courseId |-> courseId,
             newSlots |-> newSlots,
             conflicts |-> checkStudentConflicts(courseId, newSlots, enrollments, timetables)]
  /\ UNCHANGED <<db, reqs>>

NextStudentConflicts ==
  \E courseId \in MutableCourses, newSlots \in SlotLists :
    ApplyCheckStudentConflicts(courseId, newSlots)

SpecStudentConflicts == InitStudentConflicts /\ [][NextStudentConflicts]_vars

\* ---------------------------------------- createTimetableSlots on its own
\* course 1 with up to MaxNewRows stored slots (manageTimetable stores any
\* list of slots) beside the seeded rows
InitCreate ==
  /\ \E n \in 0..MaxNewRows : \E existing \in [1..n -> RequestSlots] :
       /\ timetables = SeedTimetables \o NewRows(1, existing, Len(SeedTimetables) + 1)
       /\ nextTimetableId = Len(SeedTimetables) + n + 1
  /\ enrollments = SeedEnrollments
  /\ res = NoResponse
  /\ reqs = <<>>
  /\ storedCourses = Courses

NextCreate == \E courseId \in MutableCourses, slots \in SlotLists :
                CreateTimetableSlots(courseId, slots)

SpecCreate == InitCreate /\ [][NextCreate]_vars

\* --------------------------------- updateTimetableSlot and deleteTimetableSlot
\* the admins of both colleges change and delete the slots of both colleges
\* the ids of the requests: the seeded slot of the other college's course and
\* the slots of course 1
AccessIds ==
  {SeedTimetables[k].id : k \in {i \in 1..Len(SeedTimetables) :
                                   CourseCollegeId(SeedTimetables[i].courseId) = 2}}
    \cup RowIds

\* the admin of college 1 sends any body, the admin of college 2 a change of day
AccessRequests ==
  {<<1, id, u>> : id \in AccessIds, u \in UpdateBodies}
  \cup {<<2, id, u>> : id \in AccessIds, u \in {b \in UpdateBodies : b.startTime = Absent}}

AccessUpdate == \E r \in AccessRequests : UpdateTimetableSlot(r[1], r[2], r[3])
AccessDelete == \E adminId \in Admins, id \in AccessIds : DeleteTimetableSlot(adminId, id)

NextAccess == AccessUpdate \/ AccessDelete

SpecAccess == InitCreate /\ [][NextAccess]_vars

\* ------------------------------------------------------------------ schedules
\* the courses a student holds, by the rows of the enrollments table
Held(s, enr) == {enr[k].courseId : k \in {j \in 1..Len(enr) : enr[j].studentId = s}}

\* the local time of day a TIME column spells
LocalTime(v) == (v + ZoneOffset) % DayUnits

\* two stored rows on the same day whose local time ranges overlap
RowsOverlap(a, b) ==
  /\ a.dayOfWeek = b.dayOfWeek
  /\ LocalTime(a.startTime) < LocalTime(b.endTime)
  /\ LocalTime(b.startTime) < LocalTime(a.endTime)

\* student s holds two different courses with overlapping rows
ScheduleClash(s, enr, tt) ==
  \E i, j \in 1..Len(tt) :
    /\ tt[i].courseId # tt[j].courseId
    /\ tt[i].courseId \in Held(s, enr)
    /\ tt[j].courseId \in Held(s, enr)
    /\ RowsOverlap(tt[i], tt[j])

\* the step is an enrollInCourses request (res' names who asked for what)
EnrollStep == res'.op = "enrollInCourses"

\* the conflicts the request finds once it has passed the validation phase
FoundConflicts(userId, courseIds, enr, tt) ==
  LET student == FindStudentWithEnrollments(userId, enr, tt)
      requestedCourses == FindCoursesByIds(courseIds, tt)
  IN  IF \/ student = NoStudent
         \/ Len(requestedCourses) # Cardinality(courseIds)
         \/ CollegeMismatch(student, requestedCourses)
      THEN <<>>
      ELSE findTimetableConflicts(
             [k \in 1..Len(student.enrollments) |-> student.enrollments[k].course],
             NewCoursesToEnroll(student, requestedCourses))

\* the request of a student names a stored course of another college
NamesOtherCollege(userId, courseIds) ==
  /\ userId \in Students
  /\ \E c \in courseIds \cap Courses : CourseCollegeId(c) # StudentCollegeId(userId)

\* the stored rows of the courses a request newly asks for
NewRowIndexes(userId, courseIds, enr, tt) ==
  {i \in 1..Len(tt) : tt[i].courseId \in courseIds \ Held(userId, enr)}

\* the unordered pairs of those rows that overlap
OverlappingNewPairs(userId, courseIds, enr, tt) ==
  {p \in SUBSET NewRowIndexes(userId, courseIds, enr, tt) :
     /\ Cardinality(p) = 2
     /\ \E i, j \in p : i < j /\ RowsOverlap(tt[i], tt[j])}

\* the pairs (row of a newly requested course, row of a held course) that overlap
OverlappingHeldPairs(userId, courseIds, enr, tt) ==
  {p \in NewRowIndexes(userId, courseIds, enr, tt) \X (1..Len(tt)) :
     /\ tt[p[2]].courseId \in Held(userId, enr)
     /\ RowsOverlap(tt[p[1]], tt[p[2]])}

\* some new slot overlaps a slot of another new course or of a held course
ClashExpected(userId, courseIds, enr, tt) ==
  \/ OverlappingHeldPairs(userId, courseIds, enr, tt) # {}
  \/ \E p \in OverlappingNewPairs(userId, courseIds, enr, tt) :
       \E i, j \in p : tt[i].courseId # tt[j].courseId

\* the entries of a conflict list of one type
OfType(conflicts, type) == SelectSeq(conflicts, LAMBDA c : c.type = type)

\* the step is an enrollInCourses request that reached the conflict check
CheckedEnrollStep == EnrollStep /\ res'.status \in {"OK", "TIMETABLE_CLASH"}

\* a proposed slot ('HH:mm' strings) and a stored row on the same day whose
\* local time ranges overlap
SlotOverlapsRow(slot, row) ==
  /\ slot.dayOfWeek = row.dayOfWeek
  /\ slot.startTime.hhmm < LocalTime(row.endTime)
  /\ LocalTime(row.startTime) < slot.endTime.hhmm

\* a proposed slot of the course overlaps a row of another course held by a
\* student who is enrolled in the course
StudentOverlap(courseId, slots, enr, tt) ==
  \E s \in Students, k \in 1..Len(slots), i \in 1..Len(tt) :
    /\ courseId \in Held(s, enr)
    /\ tt[i].courseId # courseId
    /\ tt[i].courseId \in Held(s, enr)
    /\ SlotOverlapsRow(slots[k], tt[i])

\* the slot a PATCH request proposes for the row it names
ProposedUpdate(timetableId, updateData, tt) ==
  <<UpdatedSlot(FindTimetable(timetableId, tt), updateData)>>

\* --------------------------------------------------------------------- claims
\* C1: after any sequence of whole (non-interleaved) enrollInCourses,
\* createTimetableSlots, updateTimetableSlot, manageTimetable and
\* deleteTimetableSlot requests, no student holds two different courses with
\* rows on the same day whose time ranges overlap.
C1_NoOverlappingSchedule ==
  \A s \in Students : ~ScheduleClash(s, enrollments, timetables)

\* C2: when enrollInCourses finds a conflict it answers TIMETABLE_CLASH with
\* the conflicts found and the enrollments table is what it was: none of the
\* requested courses is inserted, the ones free of conflicts included.
C2_ClashWritesNothing ==
  [][EnrollStep /\ FoundConflicts(res'.userId, res'.courseIds, enrollments, timetables) # <<>>
       => /\ res'.status = "TIMETABLE_CLASH"
          /\ res'.conflicts =
               FoundConflicts(res'.userId, res'.courseIds, enrollments, timetables)
          /\ enrollments' = enrollments]_vars

\* a request was refused for a clash although one of its courses, which the
\* student does not hold, is named in no conflict
C2_CleanCourseRefused ==
  /\ res.op = "enrollInCourses"
  /\ res.status = "TIMETABLE_CLASH"
  /\ \E c \in res.courseIds :
       /\ c \notin Held(res.userId, enrollments)
       /\ \A k \in 1..Len(res.conflicts) :
            res.conflicts[k].requested # CourseCode(c) /\ res.conflicts[k].other # CourseCode(c)

\* C3: when enrollInCourses succeeds, the courses the student holds are those
\* held before together with every requested course, and the enrolled list
\* has exactly one entry (id, code, name) per requested course not held before.
C3_SuccessAddsExactlyNew ==
  [][EnrollStep /\ res'.status \in {"OK", "ALREADY_ENROLLED"}
       => LET before == Held(res'.userId, enrollments)
              new == res'.courseIds \ before
          IN  /\ Held(res'.userId, enrollments') = before \cup new
              /\ Len(enrollments') = Len(enrollments) + Cardinality(new)
              /\ Len(res'.enrolled) = Cardinality(new)
              /\ Range(res'.enrolled) =
                   {[courseId |-> c, courseCode |-> CourseCode(c),
                     courseName |-> CourseName(c)] : c \in new}]_vars

\* a request for two courses succeeded and enrolled both
C3_TwoCoursesEnrolled ==
  /\ res.op = "enrollInCourses"
  /\ res.status = "OK"
  /\ Len(res.enrolled) = 2
  /\ res.courseIds \subseteq Held(res.userId, enrollments)

\* C6: every stored enrollment links a student and a course of one college.
C6_SameCollege ==
  \A k \in 1..Len(enrollments) :
    StudentCollegeId(enrollments[k].studentId) = CourseCollegeId(enrollments[k].courseId)

\* a request naming a course of the other college has just been refused
C6_CrossCollegeRefused ==
  /\ res.op = "enrollInCourses"
  /\ res.status = "COLLEGE_MISMATCH"
  /\ NamesOtherCollege(res.userId, res.courseIds)

C8_Idempotent ==
  [][(/\ EnrollStep
      /\ res'.userId \in Students
      /\ res'.courseIds \subseteq Held(res'.userId, enrollments))
       => /\ res'.status = "ALREADY_ENROLLED"
          /\ res'.enrolled = <<>>
          /\ enrollments' = enrollments]_vars

\* the two courses of a request that succeeded were requested again
C8_Resubmitted ==
  /\ res.op = "enrollInCourses"
  /\ res.status = "ALREADY_ENROLLED"
  /\ Cardinality(res.courseIds) = 2

\* C4: two enrollInCourses requests of one student with their awaits
\* interleaved: once no request of a student is in flight, the courses the
\* student holds have no overlapping rows.
C4_NoClashAfterEnrollRace ==
  \A s \in Students :
    (\A i \in InFlight("enrollInCourses") : reqs[i].userId # s)
      => ~ScheduleClash(s, enrollments, timetables)

\* C5: a createTimetableSlots request interleaved with an enrollInCourses
\* request: once both have answered, no student holds courses with
\* overlapping rows.
C5_NoClashAfterGuardRace ==
  reqs = <<>> => \A s \in Students : ~ScheduleClash(s, enrollments, timetables)

\* C9: the enrollments table never has two rows for one (studentId, courseId),
\* also after two interleaved requests of a student for the same course.
C9_UniqueEnrollment ==
  \A j, k \in 1..Len(enrollments) :
    j # k => enrollments[j] # enrollments[k]

\* of two interleaved requests for a course the second to write was refused
\* by the unique index
C9_SecondInsertRefused ==
  /\ res.op = "enrollInCourses"
  /\ res.status = "DUPLICATE_ENTRY"
  /\ res.courseIds \cap Held(res.userId, enrollments) # {}

\* C10: for two slots that end after they start, each conflict check reports
\* an overlap exactly when the slots are on the same day and each starts
\* before the other ends; slots that only touch are not reported.
C10_OverlapRule ==
  res.op \in {"compareTimeSlots", "findTimetableConflicts"}
    => (res.status = "OVERLAP") = RowsOverlap(timetables[1], timetables[2])

\* C11: compareTimeSlots gives the same overlap verdict and the same
\* identical-slot verdict for (a, b) and for (b, a).
C11_CompareSymmetric ==
  res.status = "BOTH_WAYS" => res.conflicts[1] = res.conflicts[2]

\* two slots that overlap without being identical were compared both ways
C11_OverlappingPairCompared ==
  /\ res.status = "BOTH_WAYS"
  /\ res.conflicts[1].overlaps
  /\ ~res.conflicts[1].isIdentical

\* C12: on one proposed slot and one stored slot, the inline check of
\* manageTimetable, compareTimeSlots, findTimetableConflicts and
\* checkTimetableConflictsHelper give the same verdict.
C12_ChecksAgree ==
  res.status = "VERDICTS"
    => LET v == res.conflicts[1]
       IN  v.inline = v.compare /\ v.compare = v.find /\ v.find = v.helper

\* C13: over the slots of the newly requested courses findTimetableConflicts
\* reports each unordered pair of overlapping slots exactly once: there are as
\* many INTERNAL entries as there are such pairs.
C13_EachPairOnce ==
  [][CheckedEnrollStep
       => Len(OfType(FoundConflicts(res'.userId, res'.courseIds, enrollments, timetables),
                     "INTERNAL"))
          = Cardinality(OverlappingNewPairs(res'.userId, res'.courseIds,
                                            enrollments, timetables))]_vars

\* C14: a request that reaches the conflict check fails with TIMETABLE_CLASH
\* exactly when a slot of a new course overlaps a slot of another new course
\* or of a held course; the list then has one EXTERNAL entry per overlapping
\* (new slot, held slot) pair and one INTERNAL entry per overlapping pair of
\* new slots; without such a pair the request succeeds.
C14_ClashIffOverlap ==
  [][CheckedEnrollStep
       => /\ (res'.status = "TIMETABLE_CLASH")
               = ClashExpected(res'.userId, res'.courseIds, enrollments, timetables)
          /\ Len(OfType(res'.conflicts, "EXTERNAL"))
               = Cardinality(OverlappingHeldPairs(res'.userId, res'.courseIds,
                                                  enrollments, timetables))
          /\ Len(OfType(res'.conflicts, "INTERNAL"))
               = Cardinality(OverlappingNewPairs(res'.userId, res'.courseIds,
                                                 enrollments, timetables))]_vars

\* C15: a createTimetableSlots, updateTimetableSlot or manageTimetable request
\* is rejected whenever a slot it proposes overlaps a slot of another course
\* held by a student enrolled in the course: the answer is
\* TIMETABLE_UPDATE_CONFLICT, or the error of a check the handler makes before
\* it looks at the students (access of the admin, overlap within the course).
C15_MutationRejected ==
  [][/\ res'.op \in {"createTimetableSlots", "manageTimetable"}
          => \A courseId \in MutableCourses, slots \in SlotLists :
               (/\ \/ CreateTimetableSlots(courseId, slots)
                   \/ ManageTimetable(courseId, slots)
                /\ StudentOverlap(courseId, slots, enrollments, timetables))
                 => res'.status \in {"TIMETABLE_UPDATE_CONFLICT", "SLOT_ALREADY_EXISTS",
                                     "TIME_CONFLICT", "DUPLICATE_OR_OVERLAPPING_IN_REQUEST"}
     /\ res'.op = "updateTimetableSlot"
          => \A r \in UpdateRequests :
               (/\ UpdateTimetableSlot(r[1], r[2], r[3])
                /\ FindTimetable(r[2], timetables) # NoRow
                /\ StudentOverlap(FindTimetable(r[2], timetables).courseId,
                                  ProposedUpdate(r[2], r[3], timetables),
                                  enrollments, timetables))
                 => res'.status \in {"TIMETABLE_UPDATE_CONFLICT", "TIME_CONFLICT",
                                     "COLLEGE_ACCESS_DENIED"}]_vars

\* C16: a createTimetableSlots, updateTimetableSlot or manageTimetable request
\* that is rejected leaves every stored timetable row as it was: no row is
\* added, changed or deleted.
C16_RejectedWritesNothing ==
  [][(/\ res'.op \in {"createTimetableSlots", "updateTimetableSlot", "manageTimetable"}
      /\ res'.status # "OK")
       => /\ timetables' = timetables
          /\ nextTimetableId' = nextTimetableId]_vars

\* a createTimetableSlots request was rejected for a student conflict while
\* the course already had a slot
C16_CreateRejected ==
  /\ res.op = "createTimetableSlots"
  /\ res.status = "TIMETABLE_UPDATE_CONFLICT"
  /\ \E k \in 1..Len(timetables) : timetables[k].courseId \in MutableCourses

\* C17: in every reachable state no course has two stored slots on the same
\* day whose time ranges are identical or overlap.
C17_NoOverlapWithinCourse ==
  \A i, j \in 1..Len(timetables) :
    (i # j /\ timetables[i].courseId = timetables[j].courseId)
      => ~RowsOverlap(timetables[i], timetables[j])

\* C18: in every reachable state every stored slot ends, in local time, after
\* it starts, also after updateTimetableSlot changed only its startTime or
\* only its endTime.
C18_EndAfterStart ==
  \A k \in 1..Len(timetables) :
    LocalTime(timetables[k].startTime) < LocalTime(timetables[k].endTime)

\* C19: a request of a user without a student record fails with NotFound; a
\* request of a student fails with NotFound exactly when some requested id
\* is no stored course, and the message then names exactly those ids; in both
\* cases no enrollment row is written.
C19_NotFound ==
  [][(/\ res'.op = "POST /api/enrollments"
      /\ res'.status # "VALIDATION_ERROR")
       => LET unresolved == Range(res'.courseIds) \ Courses
          IN  /\ res'.userId \notin Students
                   => /\ res'.status = "STUDENT_NOT_FOUND"
                      /\ enrollments' = enrollments
              /\ res'.userId \in Students
                   => /\ (res'.status = "COURSE_NOT_FOUND") <=> (unresolved # {})
                      /\ res'.status = "COURSE_NOT_FOUND"
                           => /\ Range(res'.notFound) = unresolved
                              /\ enrollments' = enrollments]_vars

\* C20: for a student and a set of stored courses of the student's college,
\* checkTimetableConflicts reports a conflict exactly when enrollInCourses on
\* the same ids in the same state fails with a timetable clash, and it
\* reports none when no slot of a newly requested course overlaps a slot of
\* another requested or held course.
C20_CheckAgreesWithEnroll ==
  [][(/\ res'.op = "checkTimetableConflicts"
      /\ res'.userId \in Students
      /\ \A c \in res'.courseIds :
           c \in Courses /\ CourseCollegeId(c) = StudentCollegeId(res'.userId))
       => LET student == FindStudentWithEnrollments(res'.userId, enrollments, timetables)
              requestedCourses == FindCoursesByIds(res'.courseIds, timetables)
              out == enrollInCourses(student, res'.courseIds, requestedCourses)
          IN  /\ (res'.conflicts # <<>>) <=> (out.status = "TIMETABLE_CLASH")
              /\ ~ClashExpected(res'.userId, res'.courseIds, enrollments, timetables)
                   => res'.conflicts = <<>>]_vars

\* C21: a request to delete a course is rejected, and the course stays, while
\* an enrollment references it; no request to delete a course removes an
\* enrollment row, and every enrollment row references a stored course.
C21_DeleteBlockedWhileEnrolled ==
  [][res'.op = "deleteCourse"
       => /\ \A c \in res'.courseIds :
               (\E k \in 1..Len(enrollments) : enrollments[k].courseId = c)
                 => /\ res'.status # "OK"
                    /\ c \in storedCourses'
          /\ enrollments' = enrollments
          /\ \A k \in 1..Len(enrollments') : enrollments'[k].courseId \in storedCourses']_vars

\* a request to delete a course with an enrolled student was rejected, after
\* another course was deleted
C21_DeleteRejected ==
  /\ res.op = "deleteCourse"
  /\ res.status = "COURSE_DELETE_HAS_ENROLLMENTS"
  /\ storedCourses # Courses

\* C22: when the createMany of the commit phase fails (a unique-index
\* violation on one of its rows, or the trigger), the request answers with an
\* error and the enrollments table is what it was before the insert.
C22_FailedInsertWritesNothing ==
  [][(/\ res'.op = "enrollInCourses"
      /\ res'.status \in {"DUPLICATE_ENTRY", "INTERNAL_ERROR"})
       => enrollments' = enrollments]_vars

\* an insert of two rows failed on one of them, and the other, which was not
\* in the table, is not stored
C22_OneOfTwoRowsRefused ==
  /\ res.op = "enrollInCourses"
  /\ res.status = "DUPLICATE_ENTRY"
  /\ Cardinality(res.courseIds) = 2
  /\ \E c, d \in res.courseIds :
       /\ c \in Held(res.userId, enrollments)
       /\ d \notin Held(res.userId, enrollments)

\* C23: a request that mixes courses the student holds with new ones is
\* checked and committed as the request for the new ones alone would be: the
\* same conflicts, the same enrolled list, rows for the new courses only; and
\* no conflict entry has a held course as its requested course.
C23_HeldCoursesLeftOut ==
  [][(/\ EnrollStep
      /\ res'.status \in {"OK", "TIMETABLE_CLASH"}
      /\ res'.courseIds \cap Held(res'.userId, enrollments) # {})
       => LET held == Held(res'.userId, enrollments)
              new == res'.courseIds \ held
              student == FindStudentWithEnrollments(res'.userId, enrollments, timetables)
              alone == enrollInCourses(student, new, FindCoursesByIds(new, timetables))
          IN  /\ res'.conflicts = alone.conflicts
              /\ res'.enrolled = alone.enrolled
              /\ \A k \in 1..Len(res'.conflicts) :
                   res'.conflicts[k].requested \notin {CourseCode(c) : c \in held}
              /\ Held(res'.userId, enrollments')
                   = held \cup (IF res'.status = "OK" THEN new ELSE {})
              /\ Len(enrollments')
                   = Len(enrollments) + (IF res'.status = "OK" THEN Cardinality(new) ELSE 0)]_vars

\* a request for course 3, which the student held and which has a slot, and
\* for one new course succeeded and enrolled the new one
C23_MixedRequestEnrolled ==
  /\ res.op = "enrollInCourses"
  /\ res.status = "OK"
  /\ 3 \in res.courseIds
  /\ Len(res.enrolled) = 1
  /\ res.enrolled[1].courseId # 3

\* (i, j) before (k, l) in the order of two nested loops
LoopOrder(p, q) == p[1] < q[1] \/ (p[1] = q[1] /\ p[2] < q[2])

\* the place of pair p among the pairs of S in loop order
Place(p, S) == Cardinality({q \in S : LoopOrder(q, p)}) + 1

\* C24: the list findTimetableConflicts returns is fixed by its inputs: first
\* one INTERNAL entry per clashing pair (i, j), i < j, of the flattened new
\* slots, in (i, j) order, then one EXTERNAL entry per clashing pair (new
\* slot, existing slot) in the order of the outer and the inner loop.
C24_ConflictOrder ==
  res.status = "LIST"
    => LET student == FindStudentWithEnrollments(res.userId, enrollments, timetables)
           existingIntervals ==
             FlatIntervals([k \in 1..Len(student.enrollments) |-> student.enrollments[k].course])
           newIntervals == FlatIntervals(FindCoursesByIds(res.courseIds, timetables))
           n == Len(newIntervals)
           m == Len(existingIntervals)
           internal == {p \in (1..n) \X (1..n) :
                          p[1] < p[2] /\ IntervalsClash(newIntervals[p[1]], newIntervals[p[2]])}
           external == {p \in (1..n) \X (1..m) :
                          IntervalsClash(newIntervals[p[1]], existingIntervals[p[2]])}
       IN  /\ Len(res.conflicts) = Cardinality(internal) + Cardinality(external)
           /\ \A p \in internal :
                res.conflicts[Place(p, internal)]
                  = [type |-> "INTERNAL", requested |-> newIntervals[p[1]].courseCode,
                     other |-> newIntervals[p[2]].courseCode]
           /\ \A p \in external :
                res.conflicts[Cardinality(internal) + Place(p, external)]
                  = [type |-> "EXTERNAL", requested |-> newIntervals[p[1]].courseCode,
                     other |-> existingIntervals[p[2]].courseCode]

\* a list with INTERNAL entries of two different pairs of courses followed
\* by two EXTERNAL entries
C24_BothTypesListed ==
  /\ res.status = "LIST"
  /\ Len(res.conflicts) >= 4
  /\ \E i, j \in 1..Len(res.conflicts) :
       /\ i < j
       /\ res.conflicts[i].type = "INTERNAL" /\ res.conflicts[j].type = "INTERNAL"
       /\ res.conflicts[i] # res.conflicts[j]
  /\ Len(OfType(res.conflicts, "EXTERNAL")) >= 2

\* the triples (student enrolled in the course, proposed slot, row of another
\* course the student holds) whose slot and row overlap
ConflictTriples(courseId, newSlots, enr, tt) ==
  {t \in Students \X (1..Len(newSlots)) \X (1..Len(tt)) :
     /\ courseId \in Held(t[1], enr)
     /\ tt[t[3]].courseId \in Held(t[1], enr) \ {courseId}
     /\ SlotOverlapsRow(newSlots[t[2]], tt[t[3]])}

\* the entry of a triple
TripleEntry(t, newSlots, tt) ==
  [studentId |-> t[1], conflictingCourse |-> CourseCode(tt[t[3]].courseId),
   newSlot |-> newSlots[t[2]], existingSlot |-> tt[t[3]].id]

\* C25: checkStudentConflicts returns one entry for every triple (student
\* enrolled in the mutated course, proposed slot, overlapping slot of another
\* course of that student) and no other entry: none for a slot of the mutated
\* course, none for a student who is not enrolled in it.
C25_OneEntryPerTriple ==
  res.op = "checkStudentConflicts"
    => LET triples == ConflictTriples(res.courseId, res.newSlots, enrollments, timetables)
           entries == {TripleEntry(t, res.newSlots, timetables) : t \in triples}
       IN  /\ Len(res.conflicts) = Cardinality(triples)
           /\ Range(res.conflicts) = entries
           /\ \A e \in entries :
                Cardinality({k \in 1..Len(res.conflicts) : res.conflicts[k] = e})
                  = Cardinality({t \in triples : TripleEntry(t, res.newSlots, timetables) = e})

\* both students are reported, a proposed slot overlaps the course's own
\* stored slot, and a student outside the course holds an overlapping course
C25_TwoStudentsReported ==
  /\ res.op = "checkStudentConflicts"
  /\ \E j, k \in 1..Len(res.conflicts) : res.conflicts[j].studentId # res.conflicts[k].studentId
  /\ \E i \in 1..Len(timetables), k \in 1..Len(res.newSlots) :
       timetables[i].courseId = res.courseId /\ SlotOverlapsRow(res.newSlots[k], timetables[i])

\* a proposed slot and a stored row with the same day, start and end
SlotIdenticalToRow(slot, row) ==
  /\ slot.dayOfWeek = row.dayOfWeek
  /\ slot.startTime.hhmm = LocalTime(row.startTime)
  /\ slot.endTime.hhmm = LocalTime(row.endTime)

\* the pairs (proposed slot, stored row of the course) that overlap
MeetingPairs(courseId, slots, tt) ==
  {p \in (1..Len(slots)) \X (1..Len(tt)) :
     tt[p[2]].courseId = courseId /\ SlotOverlapsRow(slots[p[1]], tt[p[2]])}

\* two proposed slots on one day whose ranges overlap
SlotsOverlap(a, b) ==
  /\ a.dayOfWeek = b.dayOfWeek
  /\ a.startTime.hhmm < b.endTime.hhmm
  /\ b.startTime.hhmm < a.endTime.hhmm

\* C26 as stated: a createTimetableSlots request with a slot identical to a
\* stored slot of the course is rejected with the duplicate-slot error, and
\* the overlap error is given only when a proposed slot overlaps a stored
\* slot without being identical to it.
C26_IdenticalIsDuplicate ==
  [][res'.op = "createTimetableSlots"
       => \A courseId \in MutableCourses, slots \in SlotLists :
            CreateTimetableSlots(courseId, slots)
              => /\ (\E p \in MeetingPairs(courseId, slots, timetables) :
                       SlotIdenticalToRow(slots[p[1]], timetables[p[2]]))
                      => res'.status = "SLOT_ALREADY_EXISTS"
                 /\ res'.status = "TIME_CONFLICT"
                      => \E p \in MeetingPairs(courseId, slots, timetables) :
                           ~SlotIdenticalToRow(slots[p[1]], timetables[p[2]])]_vars

\* C26 amended: the first pair (proposed slot, stored slot of the course), in
\* the order of the request and of the stored rows, that overlaps decides the
\* error, unless an earlier proposed slot overlaps a later one of the request:
\* the duplicate-slot error when the pair is identical, the overlap error when
\* it is not; neither error is given without such a pair.
C26_FirstMeetingDecides ==
  [][res'.op = "createTimetableSlots"
       => \A courseId \in MutableCourses, slots \in SlotLists :
            CreateTimetableSlots(courseId, slots)
              => LET pairs == MeetingPairs(courseId, slots, timetables)
                     first == CHOOSE p \in pairs : \A q \in pairs : p = q \/ LoopOrder(p, q)
                     earlierInRequest ==
                       \E i, j \in 1..Len(slots) :
                         i < j /\ i < first[1] /\ SlotsOverlap(slots[i], slots[j])
                 IN  /\ (pairs # {} /\ ~earlierInRequest)
                          => res'.status =
                               IF SlotIdenticalToRow(slots[first[1]], timetables[first[2]])
                               THEN "SLOT_ALREADY_EXISTS" ELSE "TIME_CONFLICT"
                     /\ res'.status \in {"SLOT_ALREADY_EXISTS", "TIME_CONFLICT"}
                          => pairs # {}]_vars

\* a request was rejected as a duplicate of a stored slot of the course
C26_DuplicateRejected ==
  /\ res.op = "createTimetableSlots"
  /\ res.status = "SLOT_ALREADY_EXISTS"
  /\ \E k \in 1..Len(timetables) : timetables[k].courseId \in MutableCourses

\* C27: when the createTimetableSlots requests for a course have run with
\* their reads, checks and writes interleaved and all have been answered, no
\* two stored slots of the course overlap.
C27_NoOverlapAfterSlotRace ==
  reqs = <<>>
    => \A i, j \in 1..Len(timetables) :
         (/\ i < j
          /\ timetables[i].courseId \in MutableCourses
          /\ timetables[i].courseId = timetables[j].courseId)
           => ~RowsOverlap(timetables[i], timetables[j])

\* the step on slot timetableId asked by adminId: refused and without effect
\* when the slot's course is of another college, and every row it changed or
\* removed is of a course of the admin's college
AccessRule(adminId, timetableId) ==
  /\ \A k \in 1..Len(timetables) :
       (/\ timetables[k].id = timetableId
        /\ CourseCollegeId(timetables[k].courseId) # AdminCollegeId(adminId))
         => /\ res'.status = "COLLEGE_ACCESS_DENIED"
            /\ timetables' = timetables
  /\ \A k \in 1..Len(timetables) :
       timetables[k] \notin Range(timetables')
         => CourseCollegeId(timetables[k].courseId) = AdminCollegeId(adminId)

\* C28: updateTimetableSlot and deleteTimetableSlot asked by an admin of a
\* college other than that of the slot's course answer COLLEGE_ACCESS_DENIED
\* and leave the table as it was; a slot is changed or deleted only by an
\* admin of its course's college.
C28_OtherCollegeDenied ==
  [][res'.op \in {"updateTimetableSlot", "deleteTimetableSlot"}
       => /\ \A r \in AccessRequests :
               UpdateTimetableSlot(r[1], r[2], r[3]) => AccessRule(r[1], r[2])
          /\ \A adminId \in Admins, timetableId \in AccessIds :
               DeleteTimetableSlot(adminId, timetableId) => AccessRule(adminId, timetableId)]_vars

\* a deletion was refused for the college while slots of both colleges are stored
C28_DeleteDenied ==
  /\ res.op = "deleteTimetableSlot"
  /\ res.status = "COLLEGE_ACCESS_DENIED"
  /\ \E i, j \in 1..Len(timetables) :
       CourseCollegeId(timetables[i].courseId) # CourseCollegeId(timetables[j].courseId)

\* the enrollment rows of the students other than userId's student
RowsOfOthers(userId, enr) == SelectSeq(enr, LAMBDA r : r.studentId # userId)

\* C29: an enrollInCourses request, accepted or rejected, leaves the
\* enrollment rows of every other student, the courses and the timetable
\* slots as they were, and removes none of the requesting student's rows.
C29_OnlyOwnEnrollments ==
  [][EnrollStep
       => /\ RowsOfOthers(res'.userId, enrollments') = RowsOfOthers(res'.userId, enrollments)
          /\ \A k \in 1..Len(enrollments) : enrollments[k] \in Range(enrollments')
          /\ storedCourses' = storedCourses
          /\ timetables' = timetables
          /\ nextTimetableId' = nextTimetableId]_vars

\* student 1 was enrolled while student 2 holds a course
C29_EnrolledBesideOther ==
  /\ res.op = "enrollInCourses"
  /\ res.status = "OK"
  /\ \E k \in 1..Len(enrollments) : enrollments[k].studentId = res.userId
  /\ \E k \in 1..Len(enrollments) : enrollments[k].studentId # res.userId

\* C30: every INTERNAL conflict of an enrollInCourses answer names two
\* different requested courses, and a request with a single course the
\* student does not hold yet is never answered with an INTERNAL conflict.
C30_InternalNamesTwoCourses ==
  [][EnrollStep
       => /\ \A k \in 1..Len(res'.conflicts) :
               res'.conflicts[k].type = "INTERNAL"
                 => res'.conflicts[k].requested # res'.conflicts[k].other
          /\ Cardinality((res'.courseIds \cap Courses) \ Held(res'.userId, enrollments)) = 1
               => OfType(res'.conflicts, "INTERNAL") = <<>>]_vars
====
